---- MODULE Spec2Model ----
(*************************************************************************)
(* Model of app.py, the PFT analysis tool: the interpretation functions  *)
(* (classify_severity, interpret_spirometry, interpret_lung_volumes,     *)
(* interpret_dlco, generate_final_impression) and the Streamlit session  *)
(* around them (pft_data, interpretation_done, Extract, Save, tab2/tab3).*)
(*                                                                       *)
(* Numbers are fixed-point: a Python float x is the integer x * Scale.   *)
(* An optional argument is a sequence: None is << >>, the float x is     *)
(* << x * Scale >>.  A dict is a function whose DOMAIN is its key set.   *)
(* An output line is a record [t |-> the f-string's text with {} for     *)
(* each replacement field, a |-> the values formatted into it].          *)
(*************************************************************************)
EXTENDS Integers, Sequences, FiniteSets, TLC

VARIABLES
    pft_data,             \* st.session_state.pft_data
    interpretation_done,  \* st.session_state.interpretation_done
    tab1,                 \* what the last script run rendered under "Extraction Options"
    tab2,                 \* what the last script run rendered in tab2
    tab3,                 \* what the last script run rendered in tab3
    pc,                   \* "session", or "call"/"return" of a function application
    call,                 \* the function applied and its arguments
    ret                   \* the value it returned

vars == <<pft_data, interpretation_done, tab1, tab2, tab3, pc, call, ret>>

-----------------------------------------------------------------------------
(* Bounds of the model *)

\* units per percent point (and per litre): one decimal place
Scale == 10
\* how far around each threshold the sampled inputs reach, in units
Delta == 1

None == << >>
Some(x) == << x >>

\* Python truthiness of an optional float: None and 0.0 are falsy
Truthy(x) == x # None /\ x[1] # 0

Line(t, a) == [t |-> t, a |-> a]

-----------------------------------------------------------------------------
(* classify_severity *)

\* the parameters classify_severity has a table for
RecognizedParameters == {"FVC_pred", "FEV1_pred", "DLCO_pred"}

\* classify_severity with the Normal band's lower bound made exclusive
classify_severity_exclusive(value, parameter) ==
    IF parameter \in RecognizedParameters
    THEN IF value > 80 * Scale THEN <<"Normal", "normal">>
         ELSE IF value >= 70 * Scale THEN <<"Mild", "warning">>
         ELSE IF value >= 60 * Scale THEN <<"Moderate", "warning">>
         ELSE IF value >= 50 * Scale THEN <<"Moderately Severe", "abnormal">>
         ELSE IF value >= 35 * Scale THEN <<"Severe", "abnormal">>
         ELSE <<"Very Severe", "abnormal">>
    ELSE <<"Unknown", "normal">>

classify_severity(value, parameter) ==
    IF parameter \in RecognizedParameters
    THEN IF value >= 80 * Scale THEN <<"Normal", "normal">>
         ELSE IF value >= 70 * Scale THEN <<"Mild", "warning">>
         ELSE IF value >= 60 * Scale THEN <<"Moderate", "warning">>
         ELSE IF value >= 50 * Scale THEN <<"Moderately Severe", "abnormal">>
         ELSE IF value >= 35 * Scale THEN <<"Severe", "abnormal">>
         ELSE <<"Very Severe", "abnormal">>
    ELSE <<"Unknown", "normal">>

-----------------------------------------------------------------------------
(* interpret_spirometry: a None fev1_fvc makes the first comparison raise *)

SpiroObstructive(fev1_fvc, fev1_pred) ==
    <<Line("**Obstructive Pattern Detected:**", << >>),
      Line("- FEV1/FVC ratio is {}% (< 70%)", <<fev1_fvc[1]>>)>>
    \o (IF Truthy(fev1_pred)
        THEN <<Line("- Severity: {} obstruction (FEV1 {}% predicted)",
                    <<classify_severity(fev1_pred[1], "FEV1_pred")[1], fev1_pred[1]>>)>>
        ELSE << >>)

SpiroRestrictive(fev1_fvc, fvc_pred) ==
    <<Line("**Restrictive Pattern Suggested:**", << >>),
      Line("- FVC is {}% of predicted (< 80%)", <<fvc_pred[1]>>),
      Line("- FEV1/FVC ratio is preserved ({}% if available)", <<fev1_fvc[1]>>),
      Line("- Consider lung volume measurements for confirmation", << >>)>>

SpiroMixed(fev1_fvc, fvc_pred) ==
    <<Line("**Mixed Pattern (Obstructive + Restrictive):**", << >>),
      Line("- FEV1/FVC ratio is {}% (< 70%) - Obstruction", <<fev1_fvc[1]>>),
      Line("- FVC is {}% of predicted (< 80%) - Restriction", <<fvc_pred[1]>>)>>

SpiroNormal(fev1_fvc, fev1_pred, fvc_pred) ==
    <<Line("**Normal Spirometry Pattern:**", << >>),
      Line("- FEV1/FVC ratio: {}% (>= 70%)", <<fev1_fvc[1]>>)>>
    \o (IF Truthy(fvc_pred)
        THEN <<Line("- FVC: {}% of predicted (>= 80%)", <<fvc_pred[1]>>)>>
        ELSE << >>)
    \o (IF Truthy(fev1_pred)
        THEN <<Line("- FEV1: {}% of predicted (>= 80%)", <<fev1_pred[1]>>)>>
        ELSE << >>)

interpret_spirometry(fev1_fvc, fev1_pred, fvc_pred) ==
    IF fev1_fvc = None
    THEN [raised |-> "TypeError", pattern |-> "", interpretation |-> << >>]
    ELSE IF fev1_fvc[1] < 70 * Scale
    THEN [raised |-> "", pattern |-> "Obstructive",
          interpretation |-> SpiroObstructive(fev1_fvc, fev1_pred)]
    ELSE IF Truthy(fvc_pred) /\ fvc_pred[1] < 80 * Scale
            /\ (~Truthy(fev1_fvc) \/ fev1_fvc[1] >= 70 * Scale)
    THEN [raised |-> "", pattern |-> "Restrictive",
          interpretation |-> SpiroRestrictive(fev1_fvc, fvc_pred)]
    ELSE IF fev1_fvc[1] < 70 * Scale /\ Truthy(fvc_pred) /\ fvc_pred[1] < 80 * Scale
    THEN [raised |-> "", pattern |-> "Mixed",
          interpretation |-> SpiroMixed(fev1_fvc, fvc_pred)]
    ELSE [raised |-> "", pattern |-> "Normal",
          interpretation |-> SpiroNormal(fev1_fvc, fev1_pred, fvc_pred)]

-----------------------------------------------------------------------------
(* interpret_lung_volumes *)

VolumesTLC(tlc_pred) ==
    IF tlc_pred[1] < 80 * Scale
    THEN <<Line("**Restrictive Pattern Confirmed:**", << >>),
           Line("- TLC is {}% of predicted (< 80%)", <<tlc_pred[1]>>),
           Line("- Severity: {} restriction",
                <<classify_severity(tlc_pred[1], "TLC_pred")[1]>>)>>
    ELSE IF tlc_pred[1] > 120 * Scale
    THEN <<Line("**Hyperinflation Detected:**", << >>),
           Line("- TLC is {}% of predicted (> 120%)", <<tlc_pred[1]>>)>>
    ELSE <<Line("**Normal Lung Volumes:**", << >>),
           Line("- TLC is {}% of predicted (normal range)", <<tlc_pred[1]>>)>>

VolumesRV(rv_pred) ==
    IF ~Truthy(rv_pred) THEN << >>
    ELSE IF rv_pred[1] > 120 * Scale
    THEN <<Line("- Increased residual volume (RV {}% predicted) - suggests air trapping",
                <<rv_pred[1]>>)>>
    ELSE IF rv_pred[1] < 80 * Scale
    THEN <<Line("- Decreased residual volume (RV {}% predicted)", <<rv_pred[1]>>)>>
    ELSE <<Line("- Normal residual volume (RV {}% predicted)", <<rv_pred[1]>>)>>

interpret_lung_volumes(tlc_pred, rv_pred) ==
    IF ~Truthy(tlc_pred)
    THEN <<Line("Lung volume data not available", << >>)>>
    ELSE VolumesTLC(tlc_pred) \o VolumesRV(rv_pred)

-----------------------------------------------------------------------------
(* interpret_dlco *)

interpret_dlco(dlco_pred) ==
    IF ~Truthy(dlco_pred)
    THEN <<Line("DLCO data not available", << >>)>>
    ELSE IF dlco_pred[1] < 80 * Scale
    THEN <<Line("**Reduced Diffusion Capacity:**", << >>),
           Line("- DLCO is {}% of predicted (< 80%)", <<dlco_pred[1]>>),
           Line("- Severity: {}", <<classify_severity(dlco_pred[1], "DLCO_pred")[1]>>),
           Line("- May indicate:", << >>),
           Line("  - Emphysema/COPD", << >>),
           Line("  - Interstitial lung disease", << >>),
           Line("  - Pulmonary vascular disease", << >>),
           Line("  - Anemia (if present)", << >>)>>
    ELSE IF dlco_pred[1] > 120 * Scale
    THEN <<Line("**Increased Diffusion Capacity:**", << >>),
           Line("- DLCO is {}% of predicted (> 120%)", <<dlco_pred[1]>>),
           Line("- May indicate:", << >>),
           Line("  - Polycythemia", << >>),
           Line("  - Alveolar hemorrhage", << >>),
           Line("  - Left-to-right cardiac shunt", << >>)>>
    ELSE <<Line("**Normal Diffusion Capacity:**", << >>),
           Line("- DLCO is {}% of predicted (normal range)", <<dlco_pred[1]>>)>>

-----------------------------------------------------------------------------
(* generate_final_impression *)

\* dict.get(key): None when the key is missing
DictGet(d, key) == IF key \in DOMAIN d THEN Some(d[key]) ELSE None

\* dict.get(key, default)
DictGetOr(d, key, default) == IF key \in DOMAIN d THEN d[key] ELSE default

ImpressionFindings(pattern, data) ==
    IF pattern = "Obstructive"
    THEN <<Line("Findings consistent with obstructive lung disease.", << >>)>>
         \o (IF Truthy(DictGet(data, "DLCO_pred")) /\ data["DLCO_pred"] < 80 * Scale
             THEN <<Line("Reduced DLCO suggests parenchymal involvement (e.g., emphysema).",
                         << >>)>>
             ELSE << >>)
         \o <<Line("", << >>),
              Line("**Differential Diagnosis:**", << >>),
              Line("- Chronic Obstructive Pulmonary Disease (COPD)", << >>),
              Line("- Asthma", << >>),
              Line("- Bronchiectasis", << >>),
              Line("- Chronic bronchitis", << >>)>>
    ELSE IF pattern = "Restrictive"
    THEN <<Line("Findings suggest restrictive lung disease.", << >>),
           Line("", << >>),
           Line("**Differential Diagnosis:**", << >>),
           Line("- Interstitial lung disease (ILD)", << >>),
           Line("- Chest wall disorders", << >>),
           Line("- Neuromuscular disease", << >>),
           Line("- Obesity", << >>),
           Line("- Pleural disease", << >>)>>
    ELSE IF pattern = "Mixed"
    THEN <<Line("Findings show both obstructive and restrictive components.", << >>),
           Line("", << >>),
           Line("**Differential Diagnosis:**", << >>),
           Line("- Combined pulmonary fibrosis and emphysema (CPFE)", << >>),
           Line("- COPD with concurrent ILD", << >>),
           Line("- Severe asthma with air trapping", << >>)>>
    ELSE <<Line("Pulmonary function tests are within normal limits.", << >>)>>

\* ImpressionRecommendations with the follow-up lines added for every pattern
ImpressionRecommendations_unconditional(pattern) ==
    <<Line("", << >>),
      Line("**Recommendations:**", << >>),
      Line("- Clinical correlation is essential", << >>),
      Line("- Consider chest imaging if not already performed", << >>),
      Line("- Follow-up PFTs may be indicated to assess progression or response to treatment",
           << >>),
      Line("- Consider referral to pulmonologist if not already involved", << >>)>>

ImpressionRecommendations(pattern) ==
    <<Line("", << >>),
      Line("**Recommendations:**", << >>),
      Line("- Clinical correlation is essential", << >>),
      Line("- Consider chest imaging if not already performed", << >>)>>
    \o (IF pattern # "Normal"
        THEN <<Line("- Follow-up PFTs may be indicated to assess progression or response to treatment",
                    << >>),
               Line("- Consider referral to pulmonologist if not already involved", << >>)>>
        ELSE << >>)

generate_final_impression(pattern, data) ==
    <<Line("**Primary Pattern: {}**", <<pattern>>), Line("", << >>)>>
    \o ImpressionFindings(pattern, data)
    \o ImpressionRecommendations(pattern)

-----------------------------------------------------------------------------
(* parse_pft_values.  An OCR text is a sequence of items, each printed as *)
(* label, separator, number and an optional percent sign on a line of its *)
(* own.  re.search returns the leftmost match, so each key takes the      *)
(* number of the first item its pattern matches.                          *)

Labels == {"FVC", "FEV1", "FEV1/FVC", "TLC", "RV", "DLCO", "FEF25-75"}

\* ":" is a colon or white space, "=" any other separator
Seps == {":", "="}

ExtractNums == {65 * Scale, 250 * Scale}

Tokens == [label : Labels, sep : Seps, num : ExtractNums, pct : BOOLEAN]

\* the texts OCR returns: the empty text and the texts of one item
Texts == {<< >>} \cup {<<tok>> : tok \in Tokens}

PatternKeys == {"FVC", "FEV1", "FEV1/FVC", "TLC", "RV", "DLCO", "FEF25-75"}

PredPatternKeys == {"FVC_pred", "FEV1_pred", "TLC_pred", "DLCO_pred"}

\* patterns[key]: the key, then [:\s]+, then the number.  "FVC" is also
\* found at the end of the label "FEV1/FVC".
PatternMatches(tok, key) ==
    /\ tok.sep = ":"
    /\ tok.label \in (IF key = "FVC" THEN {"FVC", "FEV1/FVC"} ELSE {key})

\* pred_patterns[key]: the name, non-digits, the number, non-digits, "%".
\* The non-digits after the name span the rest of the label "FEV1/FVC";
\* those after the number cannot reach past the next item's number.
PredPatternMatches(tok, key) ==
    /\ tok.pct
    /\ tok.label \in (CASE key = "FVC_pred" -> {"FVC", "FEV1/FVC"}
                        [] key = "FEV1_pred" -> {"FEV1", "FEV1/FVC"}
                        [] key = "TLC_pred" -> {"TLC"}
                        [] key = "DLCO_pred" -> {"DLCO"})

KeyMatches(tok, key) ==
    IF key \in PatternKeys THEN PatternMatches(tok, key)
    ELSE PredPatternMatches(tok, key)

FirstMatch(text, key) ==
    CHOOSE i \in DOMAIN text :
        /\ KeyMatches(text[i], key)
        /\ \A j \in DOMAIN text : j < i => ~KeyMatches(text[j], key)

parse_pft_values(text) ==
    [key \in {k \in PatternKeys \cup PredPatternKeys :
                 \E i \in DOMAIN text : KeyMatches(text[i], k)}
        |-> text[FirstMatch(text, key)].num]

-----------------------------------------------------------------------------
(* The script run: tab1's form, tab2 and tab3 *)

RawKeys == {"FEV1", "FVC", "TLC", "RV", "DLCO"}

PredKeys == {"FEV1_pred", "FVC_pred", "TLC_pred", "RV_pred", "DLCO_pred"}

FormKeys == RawKeys \cup PredKeys \cup {"FEV1/FVC"}

\* max_value of a number_input (the raw fields have none)
MaxValue(key) == IF key = "FEV1/FVC" THEN 100 * Scale ELSE 200 * Scale

\* value= of a number_input
FormDefault(d, key) == DictGetOr(d, key, 0)

\* FormRenders with no max_value on the percent-predicted inputs
FormRenders_ratio_only(d) ==
    FormDefault(d, "FEV1/FVC") <= MaxValue("FEV1/FVC")

\* st.number_input raises when value exceeds max_value; the script run
\* stops there, before the Save button, tab2 and tab3
FormRenders(d) ==
    \A key \in PredKeys \cup {"FEV1/FVC"} : FormDefault(d, key) <= MaxValue(key)

\* Tab2 without the test of interpretation_done
Tab2_ungated(done, data) ==
    IF ~FormRenders(data) THEN [shown |-> "exception"]
    ELSE IF DOMAIN data = {} THEN [shown |-> "warning"]
    ELSE [shown |-> "interpretation", data |-> data]

Tab2(done, data) ==
    IF ~FormRenders(data) THEN [shown |-> "exception"]
    ELSE IF ~done \/ DOMAIN data = {} THEN [shown |-> "warning"]
    ELSE LET spiro == interpret_spirometry(Some(DictGetOr(data, "FEV1/FVC", 0)),
                                           Some(DictGetOr(data, "FEV1_pred", 0)),
                                           Some(DictGetOr(data, "FVC_pred", 0)))
         IN [shown |-> "interpretation",
             data |-> data,
             pattern |-> spiro.pattern,
             spiro_interp |-> spiro.interpretation,
             severity |-> IF Truthy(DictGet(data, "FEV1_pred"))
                          THEN Some(classify_severity(data["FEV1_pred"], "FEV1_pred"))
                          ELSE None,
             vol_interp |-> interpret_lung_volumes(DictGet(data, "TLC_pred"),
                                                   DictGet(data, "RV_pred")),
             dlco_interp |-> interpret_dlco(DictGet(data, "DLCO_pred")),
             impression |-> generate_final_impression(spiro.pattern, data)]

Tab3(done, data) ==
    IF ~FormRenders(data) THEN "exception"
    ELSE IF ~done THEN "warning"
    ELSE "review"

Render ==
    /\ tab2' = Tab2(interpretation_done', pft_data')
    /\ tab3' = Tab3(interpretation_done', pft_data')

-----------------------------------------------------------------------------
(* The session *)

EmptyDict == << >>

NoCall == [fn |-> "none", args |-> << >>]

\* a script run in which the Extract button was not pressed
NoNotice == [notice |-> "none", parsed_data |-> << >>]

\* what the Extract handler shows: nothing for an empty text, else
\* st.success for the values parsed from the text or st.warning for none
Tab1(text) ==
    [notice |-> IF text = << >> THEN "no text"
                ELSE IF DOMAIN parse_pft_values(text) # {} THEN "success"
                ELSE "warning",
     parsed_data |-> parse_pft_values(text)]

Init ==
    /\ pft_data = EmptyDict
    /\ interpretation_done = FALSE
    /\ tab1 = NoNotice
    /\ tab2 = Tab2(FALSE, EmptyDict)
    /\ tab3 = Tab3(FALSE, EmptyDict)
    /\ pc = "session"
    /\ call = NoCall
    /\ ret = None

\* "Extract Values from Document": shown under "Upload File" once a file
\* of type image/* or application/pdf is uploaded; text is what OCR of the
\* file returned ("" on an OCR error)
Extract(input_method, file_type, text) ==
    /\ pc = "session"
    /\ input_method = "Upload File"
    /\ file_type \in {"image", "pdf"}
    /\ LET parsed_data == parse_pft_values(text)
       IN pft_data' = IF text # << >> /\ DOMAIN parsed_data # {}
                      THEN parsed_data ELSE pft_data
    /\ tab1' = Tab1(text)
    /\ UNCHANGED <<interpretation_done, pc, call, ret>>
    /\ Render

\* what the user types into a number_input, when typing into it at all
UserInputs(key) ==
    CASE key = "FEV1/FVC" -> {65 * Scale, 75 * Scale}
      [] key = "FEV1_pred" -> {60 * Scale}
      [] key = "FVC_pred" -> {75 * Scale}
      [] key = "TLC_pred" -> {70 * Scale}
      [] key = "RV_pred" -> {130 * Scale}
      [] key = "DLCO_pred" -> {60 * Scale}
      [] key = "FEV1" -> {(5 * Scale) \div 2}

TypedKeys == {"FEV1/FVC", "FVC_pred", "RV_pred", "DLCO_pred"}

\* the inputs the user typed into since the form was drawn, with the values
Typings ==
    {[k \in keys |-> IF k = "FEV1/FVC" THEN ratio ELSE CHOOSE v \in UserInputs(k) : TRUE] :
        keys \in SUBSET TypedKeys, ratio \in UserInputs("FEV1/FVC")}

\* "Save Values and Generate Interpretation": every number_input holds
\* what was typed into it or else its default; all eleven are saved
Save(typed) ==
    /\ pc = "session"
    /\ FormRenders(pft_data)
    /\ \A k \in DOMAIN typed : typed[k] \in UserInputs(k)
    /\ pft_data' = [k \in FormKeys |-> IF k \in DOMAIN typed THEN typed[k]
                                        ELSE FormDefault(pft_data, k)]
    /\ interpretation_done' = TRUE
    /\ tab1' = NoNotice
    /\ UNCHANGED <<pc, call, ret>>
    /\ Render

Next ==
    \/ \E input_method \in {"Upload File", "Manual Entry"}, file_type \in {"None", "image", "pdf"},
          text \in Texts : Extract(input_method, file_type, text)
    \/ \E typed \in Typings : Save(typed)

Spec == Init /\ [][Next]_vars

-----------------------------------------------------------------------------
(* The functions applied on their own: Init draws a function and its      *)
(* arguments, the action applies the function                             *)

\* the values the thresholds of the code separate, and the ends of the
\* nominal range, each with its neighbours
Marks == {0, 35, 50, 60, 70, 80, 120, 200}

Samples == {m * Scale + d : m \in Marks, d \in -Delta..Delta}

Optional(S) == {None} \cup {Some(x) : x \in S}

Parameters == {"FEV1_pred", "FVC_pred", "TLC_pred", "DLCO_pred", "RV_pred"}

Patterns == {"Normal", "Obstructive", "Restrictive", "Mixed"}

\* the records handed to generate_final_impression
Measurements ==
    {EmptyDict} \cup {[k \in {"DLCO_pred"} |-> v] : v \in Samples}
    \cup {[k \in {"FEV1/FVC", "DLCO_pred"} |-> v] : v \in Samples}
    \cup {[k \in {"FEV1/FVC"} |-> v] : v \in Samples}

Calls ==
    {[fn |-> "classify_severity", args |-> [value |-> v, parameter |-> p]] :
        v \in Samples, p \in Parameters}
    \cup {[fn |-> "interpret_spirometry",
           args |-> [fev1_fvc |-> r, fev1_pred |-> f, fvc_pred |-> v]] :
            r \in Optional(Samples), f \in Optional(Samples), v \in Optional(Samples)}
    \cup {[fn |-> "interpret_lung_volumes", args |-> [tlc_pred |-> t, rv_pred |-> r]] :
            t \in Optional(Samples), r \in Optional(Samples)}
    \cup {[fn |-> "interpret_dlco", args |-> [dlco_pred |-> d]] : d \in Optional(Samples)}
    \cup {[fn |-> "generate_final_impression", args |-> [pattern |-> p, pft_data |-> m]] :
            p \in Patterns \cup {"Unknown"}, m \in Measurements}

InitPure ==
    /\ pft_data = EmptyDict
    /\ interpretation_done = FALSE
    /\ tab1 = NoNotice
    /\ tab2 = Tab2(FALSE, EmptyDict)
    /\ tab3 = Tab3(FALSE, EmptyDict)
    /\ pc = "call"
    /\ call \in Calls
    /\ ret = None

Return(value) ==
    /\ pc = "call"
    /\ pc' = "return"
    /\ ret' = Some(value)
    /\ UNCHANGED <<pft_data, interpretation_done, tab1, tab2, tab3, call>>

ApplyClassifySeverity ==
    /\ call.fn = "classify_severity"
    /\ Return(classify_severity(call.args.value, call.args.parameter))

ApplyInterpretSpirometry ==
    /\ call.fn = "interpret_spirometry"
    /\ Return(interpret_spirometry(call.args.fev1_fvc, call.args.fev1_pred,
                                   call.args.fvc_pred))

ApplyInterpretLungVolumes ==
    /\ call.fn = "interpret_lung_volumes"
    /\ Return(interpret_lung_volumes(call.args.tlc_pred, call.args.rv_pred))

ApplyInterpretDlco ==
    /\ call.fn = "interpret_dlco"
    /\ Return(interpret_dlco(call.args.dlco_pred))

ApplyGenerateFinalImpression ==
    /\ call.fn = "generate_final_impression"
    /\ Return(generate_final_impression(call.args.pattern, call.args.pft_data))

NextPure ==
    \/ ApplyClassifySeverity
    \/ ApplyInterpretSpirometry
    \/ ApplyInterpretLungVolumes
    \/ ApplyInterpretDlco
    \/ ApplyGenerateFinalImpression

SpecPure == InitPure /\ [][NextPure]_vars

-----------------------------------------------------------------------------
(* Reading a result *)

Returned(fn) == pc = "return" /\ call.fn = fn

Result == ret[1]

\* the lines of a list whose text is t
Occurrences(lines, t) == {i \in DOMAIN lines : lines[i].t = t}

Has(lines, t) == Occurrences(lines, t) # {}

\* the texts of the lines that follow the first line t, up to the next empty line
BlockAfter(lines, t) ==
    LET h == CHOOSE i \in Occurrences(lines, t) : \A j \in Occurrences(lines, t) : i <= j
    IN {lines[i].t : i \in {i \in DOMAIN lines :
                              i > h /\ \A j \in (h + 1)..i : lines[j].t # ""}}

\* the severity table of the specification, band by band
Band(v) ==
    CASE v >= 80 * Scale -> <<"Normal", "normal">>
      [] 70 * Scale <= v /\ v < 80 * Scale -> <<"Mild", "warning">>
      [] 60 * Scale <= v /\ v < 70 * Scale -> <<"Moderate", "warning">>
      [] 50 * Scale <= v /\ v < 60 * Scale -> <<"Moderately Severe", "abnormal">>
      [] 35 * Scale <= v /\ v < 50 * Scale -> <<"Severe", "abnormal">>
      [] v < 35 * Scale -> <<"Very Severe", "abnormal">>

-----------------------------------------------------------------------------
(* The claims *)

\* C1: interpret_spirometry returns Mixed whenever FEV1/FVC < 70 and FVC %
\* predicted is given and < 80.
C1_MixedWins ==
    (/\ Returned("interpret_spirometry")
     /\ call.args.fev1_fvc # None /\ call.args.fev1_fvc[1] < 70 * Scale
     /\ call.args.fvc_pred # None /\ call.args.fvc_pred[1] < 80 * Scale)
    => Result.pattern = "Mixed"

\* C2: when tab2 interprets a session record that has no FEV1/FVC, the
\* pattern it shows is Normal.
C2_AbsentRatioIsNormal ==
    (tab2.shown = "interpretation" /\ "FEV1/FVC" \notin DOMAIN pft_data)
    => tab2.pattern = "Normal"

\* C3: classify_severity returns the same pair for FEV1_pred, FVC_pred,
\* TLC_pred and DLCO_pred, and interpret_lung_volumes with TLC % predicted
\* < 80 reports the severity of the table, one of Mild .. Very Severe.
C3_UniformSeverity ==
    /\ (Returned("classify_severity")
        /\ call.args.parameter \in {"FEV1_pred", "FVC_pred", "TLC_pred", "DLCO_pred"})
       => \A kind \in {"FEV1_pred", "FVC_pred", "TLC_pred", "DLCO_pred"} :
             classify_severity(call.args.value, kind) = Result
    /\ (Returned("interpret_lung_volumes")
        /\ Truthy(call.args.tlc_pred) /\ call.args.tlc_pred[1] < 80 * Scale)
       => \E i \in Occurrences(Result, "- Severity: {} restriction") :
             /\ Result[i].a[1] = Band(call.args.tlc_pred[1])[1]
             /\ Result[i].a[1] \in {"Mild", "Moderate", "Moderately Severe",
                                    "Severe", "Very Severe"}

\* C4: for every value and every parameter classify_severity recognizes,
\* the result is the one band of the table the value lies in (lower bounds
\* inclusive; a negative value is Very Severe, a value above 200 Normal).
C4_BandsExhaustive ==
    (Returned("classify_severity") /\ call.args.parameter \in RecognizedParameters)
    => /\ Result = Band(call.args.value)
       /\ Cardinality({b \in {<<"Normal", "normal">>, <<"Mild", "warning">>,
                               <<"Moderate", "warning">>, <<"Moderately Severe", "abnormal">>,
                               <<"Severe", "abnormal">>, <<"Very Severe", "abnormal">>} :
                          b = Result}) = 1

\* C4 witness: a value just under 80 has been classified Mild and a
\* negative one Very Severe.
C4_Witness ==
    /\ Returned("classify_severity")
    /\ call.args.parameter \in RecognizedParameters
    /\ \/ call.args.value = 80 * Scale - 1 /\ Result = <<"Mild", "warning">>
       \/ call.args.value < 0 /\ Result = <<"Very Severe", "abnormal">>

\* C5: with FEV1/FVC < 70 and FVC % predicted absent or >= 80,
\* interpret_spirometry returns Obstructive, with a severity line (the
\* severity classify_severity gives FEV1 % predicted) exactly when FEV1 %
\* predicted is given.
C5_ObstructiveSeverity ==
    (/\ Returned("interpret_spirometry")
     /\ call.args.fev1_fvc # None /\ call.args.fev1_fvc[1] < 70 * Scale
     /\ (call.args.fvc_pred = None \/ call.args.fvc_pred[1] >= 80 * Scale))
    => /\ Result.pattern = "Obstructive"
       /\ Has(Result.interpretation, "- Severity: {} obstruction (FEV1 {}% predicted)")
          <=> call.args.fev1_pred # None
       /\ \A i \in Occurrences(Result.interpretation,
                               "- Severity: {} obstruction (FEV1 {}% predicted)") :
             Result.interpretation[i].a
                = <<classify_severity(call.args.fev1_pred[1], "FEV1_pred")[1], call.args.fev1_pred[1]>>

\* C6: with FEV1/FVC >= 70, interpret_spirometry returns Restrictive if FVC
\* % predicted is given and < 80 and Normal otherwise, and raises nothing.
C6_RestrictiveOrNormal ==
    (/\ Returned("interpret_spirometry")
     /\ call.args.fev1_fvc # None /\ call.args.fev1_fvc[1] >= 70 * Scale)
    => /\ Result.raised = ""
       /\ Result.pattern = IF call.args.fvc_pred # None /\ call.args.fvc_pred[1] < 80 * Scale
                           THEN "Restrictive" ELSE "Normal"

RVLines ==
    {"- Increased residual volume (RV {}% predicted) - suggests air trapping",
     "- Decreased residual volume (RV {}% predicted)",
     "- Normal residual volume (RV {}% predicted)"}

\* C7: without TLC % predicted interpret_lung_volumes returns the single
\* "not available" finding and no RV finding; with TLC and RV % predicted
\* both given it returns exactly one RV finding: air trapping above 120,
\* decreased below 80, normal otherwise.
C7_RVGatedByTLC ==
    Returned("interpret_lung_volumes")
    => /\ call.args.tlc_pred = None
          => Len(Result) = 1 /\ Result[1].t = "Lung volume data not available"
       /\ (call.args.tlc_pred # None /\ call.args.rv_pred # None)
          => /\ Cardinality({i \in DOMAIN Result : Result[i].t \in RVLines}) = 1
             /\ \A i \in DOMAIN Result : Result[i].t \in RVLines =>
                   Result[i].t =
                      IF call.args.rv_pred[1] > 120 * Scale
                      THEN "- Increased residual volume (RV {}% predicted) - suggests air trapping"
                      ELSE IF call.args.rv_pred[1] < 80 * Scale
                      THEN "- Decreased residual volume (RV {}% predicted)"
                      ELSE "- Normal residual volume (RV {}% predicted)"

ReducedDifferential ==
    {"  - Emphysema/COPD", "  - Interstitial lung disease",
     "  - Pulmonary vascular disease", "  - Anemia (if present)"}

IncreasedDifferential ==
    {"  - Polycythemia", "  - Alveolar hemorrhage", "  - Left-to-right cardiac shunt"}

\* the lines of a DLCO interpretation that name a cause
Causes(lines) ==
    {lines[i].t : i \in {i \in DOMAIN lines :
                           lines[i].t \in ReducedDifferential \cup IncreasedDifferential}}

\* C8: interpret_dlco has four outcomes: not given, the single "not
\* available" line; < 80, reduced, with the severity of the table and the
\* four causes; > 120, increased, with the three causes; otherwise normal
\* with no cause.
C8_DlcoPartition ==
    Returned("interpret_dlco")
    => LET d == call.args.dlco_pred
       IN /\ d = None => Len(Result) = 1 /\ Result[1].t = "DLCO data not available"
          /\ (d # None /\ d[1] < 80 * Scale)
             => /\ Has(Result, "**Reduced Diffusion Capacity:**")
                /\ \E i \in Occurrences(Result, "- Severity: {}") :
                      Result[i].a = <<Band(d[1])[1]>>
                /\ Causes(Result) = ReducedDifferential
          /\ (d # None /\ d[1] > 120 * Scale)
             => /\ Has(Result, "**Increased Diffusion Capacity:**")
                /\ Causes(Result) = IncreasedDifferential
          /\ (d # None /\ d[1] >= 80 * Scale /\ d[1] <= 120 * Scale)
             => /\ Has(Result, "**Normal Diffusion Capacity:**")
                /\ Causes(Result) = {}

\* the differential diagnoses of the specification, pattern by pattern
FixedDifferential(pattern) ==
    CASE pattern = "Obstructive" ->
            {"- Chronic Obstructive Pulmonary Disease (COPD)", "- Asthma",
             "- Bronchiectasis", "- Chronic bronchitis"}
      [] pattern = "Restrictive" ->
            {"- Interstitial lung disease (ILD)", "- Chest wall disorders",
             "- Neuromuscular disease", "- Obesity", "- Pleural disease"}
      [] pattern = "Mixed" ->
            {"- Combined pulmonary fibrosis and emphysema (CPFE)",
             "- COPD with concurrent ILD", "- Severe asthma with air trapping"}

\* C9: every impression recommends clinical correlation and imaging;
\* it recommends follow-up PFTs and referral exactly when the pattern is
\* not Normal; it has a differential diagnosis exactly when the pattern is
\* Obstructive, Restrictive or Mixed, and then the list of that pattern.
C9_Recommendations ==
    Returned("generate_final_impression")
    => LET pattern == call.args.pattern
           followup == "- Follow-up PFTs may be indicated to assess progression or response to treatment"
           referral == "- Consider referral to pulmonologist if not already involved"
       IN /\ Has(Result, "- Clinical correlation is essential")
          /\ Has(Result, "- Consider chest imaging if not already performed")
          /\ Has(Result, followup) <=> pattern # "Normal"
          /\ Has(Result, referral) <=> pattern # "Normal"
          /\ BlockAfter(Result, "**Recommendations:**")
                \subseteq {"- Clinical correlation is essential",
                           "- Consider chest imaging if not already performed",
                           followup, referral}
          /\ Has(Result, "**Differential Diagnosis:**")
                <=> pattern \in {"Obstructive", "Restrictive", "Mixed"}
          /\ Has(Result, "**Differential Diagnosis:**")
                => BlockAfter(Result, "**Differential Diagnosis:**") = FixedDifferential(pattern)

\* C9 witness: an impression for the Normal pattern without the follow-up
\* line, or one for the Mixed pattern with it and with a differential.
C9_Witness ==
    /\ Returned("generate_final_impression")
    /\ \/ /\ call.args.pattern = "Normal"
          /\ ~Has(Result, "- Consider referral to pulmonologist if not already involved")
       \/ /\ call.args.pattern = "Mixed"
          /\ Has(Result, "- Consider referral to pulmonologist if not already involved")
          /\ Has(Result, "**Differential Diagnosis:**")

\* C10: the impression has the "Reduced DLCO suggests parenchymal
\* involvement" line exactly when the pattern is Obstructive and the record
\* has a DLCO % predicted < 80.
C10_ReducedDlcoNote ==
    Returned("generate_final_impression")
    => (Has(Result, "Reduced DLCO suggests parenchymal involvement (e.g., emphysema).")
        <=> /\ call.args.pattern = "Obstructive"
            /\ "DLCO_pred" \in DOMAIN call.args.pft_data
            /\ call.args.pft_data["DLCO_pred"] < 80 * Scale)

\* C11: whenever tab2 interprets the session record, after any Extract and
\* Save, every percent-predicted value of the record is within 0..200 and
\* FEV1/FVC within 0..100.
C11_PercentsInRange ==
    tab2.shown = "interpretation"
    => \A k \in DOMAIN tab2.data :
          /\ k \in PredKeys => 0 <= tab2.data[k] /\ tab2.data[k] <= 200 * Scale
          /\ k = "FEV1/FVC" => 0 <= tab2.data[k] /\ tab2.data[k] <= 100 * Scale

\* C11 witness: tab2 interprets a record that Extract wrote after a Save,
\* holding an extracted percent-predicted value.
C11_Witness ==
    /\ tab2.shown = "interpretation"
    /\ tab2.data = pft_data
    /\ DOMAIN pft_data # FormKeys
    /\ \E k \in PredKeys \cap DOMAIN pft_data : pft_data[k] > 0

\* C12: once Extract has run on a new document, the session record holds
\* what was parsed from that document and nothing else (nothing at all when
\* no value was detected), and tab2 interprets no other record.
C12_EarlierDiscarded ==
    tab1.notice # "none"
    => /\ DOMAIN pft_data = DOMAIN tab1.parsed_data
       /\ \A k \in DOMAIN pft_data : pft_data[k] = tab1.parsed_data[k]
       /\ tab2.shown = "interpretation"
          => DOMAIN tab2.data = DOMAIN tab1.parsed_data

\* C13: tab2 shows an interpretation only when interpretation_done is true
\* and the session record is not empty, and tab3 its review only when
\* interpretation_done is true; interpretation_done is false at first,
\* becomes true only in a Save, and once true stays true.
C13_Gating ==
    /\ ~interpretation_done
    /\ [](tab2.shown = "interpretation" => interpretation_done /\ DOMAIN pft_data # {})
    /\ [](tab3 = "review" => interpretation_done)
    /\ [][(~interpretation_done /\ interpretation_done')
            => \E typed \in Typings : Save(typed)]_vars
    /\ [][interpretation_done => interpretation_done']_vars

\* C13 witness: after a Save and then an Extract, interpretation_done is
\* still true and tab2 shows an interpretation.
C13_Witness ==
    /\ interpretation_done
    /\ tab1.notice # "none"
    /\ tab2.shown = "interpretation"
    /\ tab3 = "review"

=============================================================================
